---- MODULE Spec2Model ----
(***************************************************************************)
(* Model of the post lifecycle of the blog API: the Post schema and its    *)
(* hooks (server/models/Post.js), the posts router (server/routes/posts.js)*)
(* and the upload filter (server/middleware/upload.js).                    *)
(*                                                                         *)
(* Strings that the code inspects character by character (titles, slugs,   *)
(* path parameters, tag lists) are sequences of one-character strings.     *)
(* An optional value (a body field that may be undefined) is <<>> when     *)
(* absent and <<v>> when present.                                          *)
(* Every await of a handler on the posts collection is one atomic step of  *)
(* that request; steps of different requests interleave freely.            *)
(***************************************************************************)
EXTENDS Integers, Sequences, FiniteSets, TLC

VARIABLES
  posts,    \* the posts collection: ObjectId number -> stored document
  nextId,   \* number of the next ObjectId / createdAt the server assigns
  reqs,     \* request slot -> the request in flight, its locals, its response
  started,  \* number of requests received so far
  log,      \* what the operations did, per post and per slot: reads,
            \* created, imageWrites of a post; the rival of a create; listed,
            \* the collection as the find of a list request in flight saw it;
            \* deleted, the slug a post had when a delete removed it
  inputs    \* the requests the clients may send

vars == <<posts, nextId, reqs, started, log, inputs>>

(***************************************************************************)
(* Bounds of the exploration.                                              *)
(***************************************************************************)
\* request slots that can be in flight at the same time
NSlots == 2
\* requests received in one behaviour
MaxRequests == 3

Slots == 1..NSlots

(***************************************************************************)
(* Characters and strings.                                                 *)
(***************************************************************************)
None == <<>>
Some(v) == <<v>>

LowerLetters == <<"a","b","c","d","e","f","g","h","i","j","k","l","m",
                  "n","o","p","q","r","s","t","u","v","w","x","y","z">>
UpperLetters == <<"A","B","C","D","E","F","G","H","I","J","K","L","M",
                  "N","O","P","Q","R","S","T","U","V","W","X","Y","Z">>
DigitChars == <<"0","1","2","3","4","5","6","7","8","9">>

Range(f) == {f[i] : i \in DOMAIN f}

\* String.prototype.toLowerCase, one character
toLowerChar(c) ==
  IF c \in Range(UpperLetters)
    THEN LowerLetters[CHOOSE i \in 1..26 : UpperLetters[i] = c]
    ELSE c

toLowerCase(s) == [i \in 1..Len(s) |-> toLowerChar(s[i])]

\* the regular-expression class \w
IsWordChar(c) ==
  c \in Range(LowerLetters) \cup Range(UpperLetters) \cup Range(DigitChars) \cup {"_"}

IsSpaceChar(c) == c \in {" ", "\t", "\n"}

\* String.prototype.trim
RECURSIVE trimStart(_)
trimStart(s) ==
  IF s # <<>> /\ IsSpaceChar(Head(s)) THEN trimStart(Tail(s)) ELSE s

RECURSIVE trimEnd(_)
trimEnd(s) ==
  IF s # <<>> /\ IsSpaceChar(s[Len(s)])
    THEN trimEnd(SubSeq(s, 1, Len(s) - 1))
    ELSE s

trim(s) == trimEnd(trimStart(s))

\* s.replace(/[^\w ]+/g, '')
StripNonWord(s) == SelectSeq(s, LAMBDA c : IsWordChar(c) \/ c = " ")

\* the rest of s after a run of ' '
RECURSIVE SkipBlanks(_)
SkipBlanks(s) ==
  IF s # <<>> /\ Head(s) = " " THEN SkipBlanks(Tail(s)) ELSE s

\* s.replace(/ +/g, '-')
RECURSIVE CollapseSpaces(_)
CollapseSpaces(s) ==
  IF s = <<>> THEN <<>>
  ELSE IF Head(s) = " "
    THEN <<"-">> \o CollapseSpaces(SkipBlanks(Tail(s)))
    ELSE <<Head(s)>> \o CollapseSpaces(Tail(s))

\* Number to decimal string, as the template literal `${counter}` prints it
RECURSIVE DecStr(_)
DecStr(n) ==
  IF n < 10 THEN <<DigitChars[n + 1]>>
  ELSE DecStr(n \div 10) \o <<DigitChars[(n % 10) + 1]>>

\* s.split(sep) for a one-character separator
RECURSIVE split(_, _)
split(s, sep) ==
  IF \A i \in 1..Len(s) : s[i] # sep THEN <<s>>
  ELSE LET k == CHOOSE i \in 1..Len(s) :
                  s[i] = sep /\ \A j \in 1..(i - 1) : s[j] # sep
       IN <<SubSeq(s, 1, k - 1)>> \o split(SubSeq(s, k + 1, Len(s)), sep)

(***************************************************************************)
(* server/models/Post.js                                                   *)
(***************************************************************************)
\* title: maxlength
MaxTitleLen == 100
\* excerpt: maxlength
MaxExcerptLen == 200

HexChars ==
  Range(DigitChars) \cup {"a","b","c","d","e","f","A","B","C","D","E","F"}

\* mongoose.Types.ObjectId.isValid on a string: 24 hexadecimal characters
IsValidObjectId(s) == Len(s) = 24 /\ \A i \in 1..24 : s[i] \in HexChars

\* the 24-character form of the n-th ObjectId the server generates
IdStr(n) == [i \in 1..24 |-> IF i = 24 THEN DigitChars[n + 1] ELSE "0"]

\* featuredImage is a nested path {data, contentType, filename}; kind tells
\* whether the stored document has no such field, has null, or has an image
NoBytes == "none"
UnsetImage ==
  [kind |-> "unset", data |-> NoBytes, contentType |-> "", filename |-> ""]
NullImage ==
  [kind |-> "null", data |-> NoBytes, contentType |-> "", filename |-> ""]

\* Generate slug function
generateSlug(title) == CollapseSpaces(StripNonWord(toLowerCase(title)))

\* the documents findOne({ slug }) matches
FindBySlug(slug) == {id \in DOMAIN posts : posts[id].slug = slug}

\* the documents findById(str) matches, str a valid ObjectId string
FindById(str) == {id \in DOMAIN posts : IdStr(id) = str}

\* one iteration of the while loop of generateUniqueSlug, after its probe
\* found the slug: [slug, counter] of the next probe
NextCandidate(originalSlug, counter) ==
  [slug |-> originalSlug \o <<"-">> \o DecStr(counter), counter |-> counter + 1]

\* new Post(postData): schema setters (title trim) and defaults
\* (isPublished false, viewCount 0, no comments)
NewPost(postData) ==
  [title         |-> trim(postData.title),
   content       |-> postData.content,
   excerpt       |-> postData.excerpt,
   slug          |-> postData.slug,
   author        |-> postData.author,
   category      |-> postData.category,
   tags          |-> postData.tags,
   isPublished   |-> postData.isPublished,
   viewCount     |-> 0,
   featuredImage |-> postData.featuredImage,
   comments      |-> <<>>,
   createdAt     |-> 0]

\* the validators of the schema, run by save() before the pre('save') hooks
\* of the schema: required paths and maximum lengths
IsValidPost(doc) ==
  /\ doc.title # <<>>
  /\ Len(doc.title) <= MaxTitleLen
  /\ doc.content # None /\ doc.content # Some(<<>>)
  /\ doc.slug # <<>>
  /\ doc.excerpt # None => Len(doc.excerpt[1]) <= MaxExcerptLen
  /\ doc.author # ""
  /\ doc.category # None

\* a hook that derives the slug from the title on every save
preSave_Always(doc, titleModified) ==
  [doc EXCEPT !.slug = generateSlug(doc.title)]

\* PostSchema.pre('save'): titleModified is this.isModified('title')
preSave(doc, titleModified) ==
  IF doc.slug = <<>> \/ titleModified
    THEN [doc EXCEPT !.slug = generateSlug(doc.title)]
    ELSE doc

\* a collection without the unique index on slug
E11000_NoIndex(doc) == FALSE

\* slug: unique - the unique index rejects a second document with the slug
E11000(doc) == FindBySlug(doc.slug) # {}

(***************************************************************************)
(* Requests and responses.                                                 *)
(***************************************************************************)
\* a request without an authenticated principal
NoUser == [id |-> "", role |-> ""]

\* req.body: the fields the handlers destructure, and author and viewCount,
\* which a client may send although no handler reads them
EmptyBody ==
  [title |-> None, content |-> None, excerpt |-> None, category |-> None,
   tags |-> None, isPublished |-> None, removeFeaturedImage |-> None,
   author |-> None, viewCount |-> None]

EmptyQuery == [page |-> None, limit |-> None, category |-> None, q |-> None]

Str_image == <<"i","m","a","g","e">>
Str_comments == <<"c","o","m","m","e","n","t","s">>
Str_search == <<"s","e","a","r","c","h">>

NoResp ==
  [status |-> 0, shape |-> "", data |-> <<>>, comments |-> <<>>,
   bytes |-> NoBytes, contentType |-> "",
   pagination |-> [page |-> 0, limit |-> 0, total |-> 0, pages |-> 0]]

\* res.status(status).json({ success: false, error: ... })
ErrorResp(status) == [NoResp EXCEPT !.status = status, !.shape = "error"]

\* res.status(400).json({ success: false, errors: errors.array() })
ErrorsResp(status) == [NoResp EXCEPT !.status = status, !.shape = "errors"]

\* res.status(status).json({ success: true, data: [...] })
DataResp(status, items) ==
  [NoResp EXCEPT !.status = status, !.shape = "data", !.data = items]

(***************************************************************************)
(* server/middleware/upload.js                                             *)
(***************************************************************************)
\* the strings in which /jpeg|jpg|png|gif|webp/ finds a match, among the
\* extensions and MIME types of the modelled uploads
AllowedTypeMatches ==
  {".jpeg", ".jpg", ".png", ".gif", ".webp",
   "image/jpeg", "image/jpg", "image/png", "image/gif", "image/webp"}

\* fileFilter: extname is path.extname(originalname).toLowerCase()
fileFilter(file) ==
  LET extname == file.extname \in AllowedTypeMatches
      mimetype == file.mimetype \in AllowedTypeMatches
  IN mimetype /\ extname

(***************************************************************************)
(* server/routes/posts.js: the routes in the order the router registers    *)
(* them.  A pattern is a sequence of segments; <<>> stands for a           *)
(* parameter (:id), any other value for the literal segment.               *)
(***************************************************************************)
\* the router with a list route that does not use auth
Routes_PublicList ==
  << [method |-> "GET",    pattern |-> <<>>,
      auth |-> FALSE, upload |-> FALSE, handler |-> "list_find"],
     [method |-> "GET",    pattern |-> << <<>> >>,
      auth |-> FALSE, upload |-> FALSE, handler |-> "get_find"],
     [method |-> "GET",    pattern |-> << <<>>, Str_image >>,
      auth |-> FALSE, upload |-> FALSE, handler |-> "image"],
     [method |-> "POST",   pattern |-> <<>>,
      auth |-> TRUE,  upload |-> TRUE,  handler |-> "create_probe"],
     [method |-> "PUT",    pattern |-> << <<>> >>,
      auth |-> TRUE,  upload |-> TRUE,  handler |-> "update_find"],
     [method |-> "DELETE", pattern |-> << <<>> >>,
      auth |-> TRUE,  upload |-> FALSE, handler |-> "delete_find"],
     [method |-> "POST",   pattern |-> << <<>>, Str_comments >>,
      auth |-> TRUE,  upload |-> FALSE, handler |-> "comment_find"],
     [method |-> "GET",    pattern |-> << Str_search >>,
      auth |-> FALSE, upload |-> FALSE, handler |-> "search"] >>

Routes ==
  << [method |-> "GET",    pattern |-> <<>>,
      auth |-> TRUE,  upload |-> FALSE, handler |-> "list_find"],
     [method |-> "GET",    pattern |-> << <<>> >>,
      auth |-> FALSE, upload |-> FALSE, handler |-> "get_find"],
     [method |-> "GET",    pattern |-> << <<>>, Str_image >>,
      auth |-> FALSE, upload |-> FALSE, handler |-> "image"],
     [method |-> "POST",   pattern |-> <<>>,
      auth |-> TRUE,  upload |-> TRUE,  handler |-> "create_probe"],
     [method |-> "PUT",    pattern |-> << <<>> >>,
      auth |-> TRUE,  upload |-> TRUE,  handler |-> "update_find"],
     [method |-> "DELETE", pattern |-> << <<>> >>,
      auth |-> TRUE,  upload |-> FALSE, handler |-> "delete_find"],
     [method |-> "POST",   pattern |-> << <<>>, Str_comments >>,
      auth |-> TRUE,  upload |-> FALSE, handler |-> "comment_find"],
     [method |-> "GET",    pattern |-> << Str_search >>,
      auth |-> FALSE, upload |-> FALSE, handler |-> "search"] >>

\* Express matches a path against a route: same number of segments, every
\* literal segment equal, a parameter matching any non-empty segment
Matches(route, method, path) ==
  /\ route.method = method
  /\ Len(route.pattern) = Len(path)
  /\ \A i \in 1..Len(path) :
       IF route.pattern[i] = <<>> THEN path[i] # <<>>
                                  ELSE route.pattern[i] = path[i]

\* the first registered route that matches, 0 when none does
Dispatch(method, path) ==
  LET hits == {i \in 1..Len(Routes) : Matches(Routes[i], method, path)}
  IN IF hits = {} THEN 0
     ELSE CHOOSE i \in hits : \A j \in hits : i <= j

(***************************************************************************)
(* Request slots.                                                          *)
(***************************************************************************)
NoReq ==
  [method |-> "", path |-> <<>>, query |-> EmptyQuery, body |-> EmptyBody,
   file |-> None, user |-> NoUser]

\* route: the index in Routes of the matched route; slug, counter: the locals of generateUniqueSlug; loaded: the document a
\* handler read with findById, <<id, doc>>; found: the result of a find the
\* handler keeps across its next await
IdleSlot ==
  [pc |-> "idle", route |-> 0, req |-> NoReq, slug |-> <<>>, counter |-> 0,
   loaded |-> None, found |-> <<>>, resp |-> NoResp]

\* the handler in slot s answers with resp and returns: its locals are gone
Finish(s, resp) ==
  reqs' = [reqs EXCEPT ![s] = [IdleSlot EXCEPT !.pc = "done",
                                               !.route = reqs[s].route,
                                               !.req = reqs[s].req,
                                               !.resp = resp]]

\* req.params.id
ParamId(r) == r.path[1]

(***************************************************************************)
(* Middleware.                                                             *)
(***************************************************************************)
\* middleware/auth: lets a request through when it carries a principal
auth(r) == r.user # NoUser

\* a slot is free when it has served no request yet or has answered its
\* request
IsFree(s) == reqs[s].pc \in {"idle", "done"}

\* a request arrives and takes the first free slot (the slots are
\* interchangeable): routing, then the middleware of the matched route
Receive(s) ==
  /\ IsFree(s)
  /\ \A t \in Slots : t < s => ~IsFree(t)
  /\ started < MaxRequests
  /\ \E r \in inputs :
       LET h == Dispatch(r.method, r.path)
           slot == [IdleSlot EXCEPT !.req = r, !.route = h]
       IN reqs' = [reqs EXCEPT ![s] =
            IF h = 0
              THEN [slot EXCEPT !.pc = "done", !.resp = ErrorResp(404)]
            ELSE IF Routes[h].auth /\ ~auth(r)
              THEN [slot EXCEPT !.pc = "done", !.resp = ErrorResp(401)]
            ELSE IF Routes[h].upload /\ r.file # None /\ ~fileFilter(r.file[1])
              THEN [slot EXCEPT !.pc = "done", !.resp = ErrorResp(400)]
            ELSE [slot EXCEPT !.pc = Routes[h].handler]]
  /\ started' = started + 1
  /\ UNCHANGED <<posts, nextId, log, inputs>>

(***************************************************************************)
(* Response payloads.                                                      *)
(***************************************************************************)
\* what the expression post.featuredImage evaluates to: featuredImage is
\* declared as a nested path, and the getter of a nested path returns the
\* nested object of the document whether or not the stored document has the
\* field
featuredImageGetter(doc) ==
  [type |-> "object", data |-> doc.featuredImage.data]

\* the double negation !!v
Truthy(v) == v.type \notin {"undefined", "null"}

\* hasFeaturedImage: !!post.featuredImage
hasFeaturedImage(doc) == Truthy(featuredImageGetter(doc))

\* a projection that keeps the image data
SelectWithoutImageData_KeepsData(doc) == doc

\* .select('-featuredImage.data')
SelectWithoutImageData(doc) ==
  [doc EXCEPT !.featuredImage.data = NoBytes]

\* { ...post.toObject(), hasFeaturedImage: !!post.featuredImage } of a
\* document read with .select('-featuredImage.data')
PostWithImageFlag(id, doc) ==
  [id |-> id, post |-> SelectWithoutImageData(doc),
   hasFeaturedImage |-> hasFeaturedImage(doc)]

\* the create response: delete responsePost.featuredImage
CreatedPostResponse(id, doc) ==
  [id |-> id, post |-> [doc EXCEPT !.featuredImage = UnsetImage],
   hasFeaturedImage |-> hasFeaturedImage(doc)]

(***************************************************************************)
(* GET /api/posts                                                          *)
(***************************************************************************)
\* the value of a run of decimal digits at the start of s, after acc
RECURSIVE DigitsValue(_, _)
DigitsValue(s, acc) ==
  IF s = <<>> \/ Head(s) \notin Range(DigitChars) THEN acc
  ELSE DigitsValue(Tail(s),
         acc * 10 + (CHOOSE d \in 0..9 : DigitChars[d + 1] = Head(s)))

\* parseInt(v) of a query parameter: leading blanks are skipped, a sign is
\* read, then the longest run of decimal digits; NaN (None) when the
\* parameter is undefined or no digit follows
parseInt(v) ==
  IF v = None THEN None
  ELSE LET t == trimStart(v[1])
           signed == t # <<>> /\ Head(t) \in {"-", "+"}
           digits == IF signed THEN Tail(t) ELSE t
       IN IF digits = <<>> \/ Head(digits) \notin Range(DigitChars) THEN None
          ELSE IF signed /\ Head(t) = "-"
            THEN Some(-DigitsValue(digits, 0))
            ELSE Some(DigitsValue(digits, 0))

\* parseInt(v) || dflt, v the number parseInt yields (None for NaN)
parseIntOr(v, dflt) == IF v = None \/ v[1] = 0 THEN dflt ELSE v[1]

\* the list query without isPublished: true
ListQueryMatches_AllPosts(doc, category) ==
  (category # None /\ category # Some("")) => doc.category = category

\* query = { isPublished: true }, plus category when the parameter is given
ListQueryMatches(doc, category) ==
  /\ doc.isPublished = TRUE
  /\ (category # None /\ category # Some("")) => doc.category = category

\* .sort({ createdAt: -1 })
RECURSIVE SortByCreatedAtDesc(_)
SortByCreatedAtDesc(ids) ==
  IF ids = {} THEN <<>>
  ELSE LET newest == CHOOSE i \in ids :
                       \A j \in ids : posts[j].createdAt <= posts[i].createdAt
       IN <<newest>> \o SortByCreatedAtDesc(ids \ {newest})

\* the query without .skip(skip)
SkipLimit_NoSkip(seq, skip, limit) ==
  SubSeq(seq, 1, IF limit < Len(seq) THEN limit ELSE Len(seq))

\* .skip(skip).limit(limit) on a sorted result; a negative limit is taken
\* by its absolute value
SkipLimit(seq, skip, limit) ==
  LET n == IF limit < 0 THEN -limit ELSE limit
  IN SubSeq(seq, skip + 1, IF skip + n < Len(seq) THEN skip + n ELSE Len(seq))

\* Math.ceil(total / limit)
CeilDiv(total, limit) ==
  IF limit > 0 THEN (total + limit - 1) \div limit
               ELSE -(total \div (-limit))

\* first await of the list handler: Post.find(query)...
ListFind(s) ==
  /\ reqs[s].pc = "list_find"
  /\ LET q == reqs[s].req.query
         page == parseIntOr(parseInt(q.page), 1)
         limit == parseIntOr(parseInt(q.limit), 10)
         skip == (page - 1) * limit
         hits == {id \in DOMAIN posts : ListQueryMatches(posts[id], q.category)}
         sorted == SortByCreatedAtDesc(hits)
         pageIds == SkipLimit(sorted, skip, limit)
     IN IF skip < 0
          THEN /\ Finish(s, ErrorResp(500))
               /\ UNCHANGED log
          ELSE /\ reqs' = [reqs EXCEPT
                    ![s].pc = "list_count",
                    ![s].found = [i \in 1..Len(pageIds) |->
                                    PostWithImageFlag(pageIds[i], posts[pageIds[i]])]]
               /\ log' = [log EXCEPT !.listed[s] = Some(posts)]
  /\ UNCHANGED <<posts, nextId, started, inputs>>

\* second await of the list handler: Post.countDocuments(query), response
ListCount(s) ==
  /\ reqs[s].pc = "list_count"
  /\ LET q == reqs[s].req.query
         page == parseIntOr(parseInt(q.page), 1)
         limit == parseIntOr(parseInt(q.limit), 10)
         total == Cardinality({id \in DOMAIN posts :
                                 ListQueryMatches(posts[id], q.category)})
     IN Finish(s, [DataResp(200, reqs[s].found) EXCEPT
                     !.pagination = [page |-> page, limit |-> limit,
                                     total |-> total,
                                     pages |-> CeilDiv(total, limit)]])
  /\ log' = [log EXCEPT !.listed[s] = None]
  /\ UNCHANGED <<posts, nextId, started, inputs>>

(***************************************************************************)
(* GET /api/posts/:id                                                      *)
(***************************************************************************)
\* the document the detail handler looks up: by id when the identifier is
\* a valid ObjectId, by slug otherwise
DetailLookup(identifier) ==
  IF IsValidObjectId(identifier) THEN FindById(identifier)
                                 ELSE FindBySlug(identifier)

\* first await of the detail handler: the lookup and the 404
GetFind(s) ==
  /\ reqs[s].pc = "get_find"
  /\ LET hits == DetailLookup(ParamId(reqs[s].req))
     IN IF hits = {}
          THEN Finish(s, ErrorResp(404))
          ELSE LET id == CHOOSE i \in hits : TRUE
               IN reqs' = [reqs EXCEPT
                    ![s].pc = "get_inc",
                    ![s].loaded = Some([id |-> id, doc |-> posts[id]]),
                    ![s].found = <<PostWithImageFlag(id, posts[id])>>]
  /\ UNCHANGED <<posts, nextId, started, log, inputs>>

\* the increment as post.viewCount + 1 written back from the loaded document
IncViewCount_ReadThenWrite(coll, id, loaded) ==
  IF id \in DOMAIN coll
    THEN [coll EXCEPT ![id].viewCount = loaded.viewCount + 1]
    ELSE coll

\* the increment sent as Post.updateMany({}, { $inc: { viewCount: 1 } })
IncViewCount_AllPosts(coll, id, loaded) ==
  [i \in DOMAIN coll |-> [coll[i] EXCEPT !.viewCount = @ + 1]]

\* Post.findByIdAndUpdate(id, { $inc: { viewCount: 1 } }): the collection
\* after the update; loaded is the document the handler read before
IncViewCount(coll, id, loaded) ==
  IF id \in DOMAIN coll
    THEN [coll EXCEPT ![id].viewCount = coll[id].viewCount + 1]
    ELSE coll

\* second await of the detail handler: the increment, then the response
GetInc(s) ==
  /\ reqs[s].pc = "get_inc"
  /\ LET l == reqs[s].loaded[1]
     IN /\ posts' = IncViewCount(posts, l.id, l.doc)
        /\ log' = [log EXCEPT !.reads[l.id] = @ + 1]
  /\ Finish(s, DataResp(200, reqs[s].found))
  /\ UNCHANGED <<nextId, started, inputs>>

(***************************************************************************)
(* GET /api/posts/:id/image and GET /api/posts/search: one await each      *)
(***************************************************************************)
\* the response of the image handler
ImageResponse(r) ==
  IF ~IsValidObjectId(ParamId(r)) THEN ErrorResp(500)
  ELSE LET hits == FindById(ParamId(r))
       IN IF hits = {} THEN ErrorResp(404)
          ELSE LET post == posts[CHOOSE i \in hits : TRUE]
               IN IF \/ ~Truthy(featuredImageGetter(post))
                     \/ post.featuredImage.data = NoBytes
                    THEN ErrorResp(404)
                    ELSE [NoResp EXCEPT
                            !.status = 200, !.shape = "binary",
                            !.bytes = post.featuredImage.data,
                            !.contentType = post.featuredImage.contentType]

\* { $regex: query, $options: 'i' } for a query without metacharacters:
\* text contains query, letter case ignored
RegexMatchesI(text, query) ==
  LET t == toLowerCase(text)
      q == toLowerCase(query)
  IN \E i \in 0..(Len(t) - Len(q)) : SubSeq(t, i + 1, i + Len(q)) = q

\* .limit(20) of the search
SearchLimit == 20

\* the response of the search handler
SearchResponse(r) ==
  IF r.query.q = None \/ r.query.q = Some(<<>>) THEN ErrorResp(400)
  ELSE LET q == r.query.q[1]
           hits == {id \in DOMAIN posts :
                      /\ posts[id].isPublished = TRUE
                      /\ \/ RegexMatchesI(posts[id].title, q)
                         \/ RegexMatchesI(posts[id].content[1], q)
                         \/ \E k \in 1..Len(posts[id].tags) :
                               RegexMatchesI(posts[id].tags[k], q)}
           ids == SkipLimit(SortByCreatedAtDesc(hits), 0, SearchLimit)
       IN DataResp(200, [i \in 1..Len(ids) |->
                           PostWithImageFlag(ids[i], posts[ids[i]])])

\* the handlers that answer after a single read of the collection
Serve(s) ==
  /\ reqs[s].pc \in {"image", "search"}
  /\ Finish(s, IF reqs[s].pc = "image" THEN ImageResponse(reqs[s].req)
                                       ELSE SearchResponse(reqs[s].req))
  /\ UNCHANGED <<posts, nextId, started, log, inputs>>

(***************************************************************************)
(* POST /api/posts                                                         *)
(***************************************************************************)
\* tags ? tags.split(',').map(tag => tag.trim()).filter(tag => tag) : []
ParseTags(tags) ==
  IF tags = None \/ tags = Some(<<>>) THEN <<>>
  ELSE LET parts == split(tags[1], ",")
           trimmed == [i \in 1..Len(parts) |-> trim(parts[i])]
       IN SelectSeq(trimmed, LAMBDA t : t # <<>>)

\* isPublished === 'true' || isPublished === true
ParsePublished(v) == v = Some("'true'") \/ v = Some("true")

\* the attachment of an uploaded file
ImageOf(file) ==
  [kind |-> "set", data |-> file.buffer, contentType |-> file.mimetype,
   filename |-> file.originalname]

\* validationResult(req) of the create handler: the route registers no
\* validation chain (postValidationRules is not used), so it has no errors
CreateValidationErrors(r) == {}

\* an iteration of generateUniqueSlug: await this.findOne({ slug })
CreateProbe(s) ==
  /\ reqs[s].pc = "create_probe"
  /\ LET r == reqs[s].req
     IN IF CreateValidationErrors(r) # {}
          THEN Finish(s, ErrorsResp(400))
        ELSE IF r.body.title = None
          \* title.toLowerCase() of undefined throws
          THEN Finish(s, ErrorResp(500))
        ELSE
          LET originalSlug == generateSlug(r.body.title[1])
              slug == IF reqs[s].counter = 0 THEN originalSlug ELSE reqs[s].slug
              counter == IF reqs[s].counter = 0 THEN 1 ELSE reqs[s].counter
              next == NextCandidate(originalSlug, counter)
          IN IF FindBySlug(slug) # {}
               THEN reqs' = [reqs EXCEPT ![s].slug = next.slug,
                                         ![s].counter = next.counter]
               ELSE reqs' = [reqs EXCEPT ![s].slug = slug,
                                         ![s].counter = counter,
                                         ![s].pc = "create_save"]
  /\ UNCHANGED <<posts, nextId, started, log, inputs>>

\* this.isModified('title') in the pre('save') hook of a document made by
\* new Post(postData): the constructor set title, so the path is modified
IsModifiedTitleOfNew(postData) == TRUE

\* log.rival after the create in slot s was answered: every other create
\* that has passed the probe of generateUniqueSlug with the same candidate
\* and has not saved yet learns the status of its rival and the id of the
\* post the rival stored (0 if none); a rival that stored its post stays
RivalsOf(s, status, id) ==
  [t \in Slots |->
     IF t = s THEN None
     ELSE IF /\ reqs[t].pc = "create_save"
             /\ reqs[t].slug = reqs[s].slug
             /\ (log.rival[t] = None \/ log.rival[t][1].status # 201)
       THEN Some([status |-> status, id |-> id])
       ELSE log.rival[t]]

\* postData built as { ...req.body, slug, author: req.body.author || req.user.id }
PostData_SpreadBody(r, slug) ==
  [title |-> r.body.title[1], content |-> r.body.content,
   excerpt |-> r.body.excerpt, category |-> r.body.category,
   tags |-> ParseTags(r.body.tags),
   isPublished |-> ParsePublished(r.body.isPublished),
   slug |-> slug,
   author |-> IF r.body.author # None THEN r.body.author[1] ELSE r.user.id,
   featuredImage |-> IF r.file # None THEN ImageOf(r.file[1]) ELSE UnsetImage]

\* const postData = {...}, with the featured image if one was uploaded
PostData(r, slug) ==
  [title |-> r.body.title[1], content |-> r.body.content,
   excerpt |-> r.body.excerpt, category |-> r.body.category,
   tags |-> ParseTags(r.body.tags),
   isPublished |-> ParsePublished(r.body.isPublished),
   slug |-> slug, author |-> r.user.id,
   featuredImage |-> IF r.file # None THEN ImageOf(r.file[1]) ELSE UnsetImage]

\* new Post(postData); await post.save(); the response
CreateSave(s) ==
  /\ reqs[s].pc = "create_save"
  /\ LET r == reqs[s].req
         postData == PostData(r, reqs[s].slug)
         post == NewPost(postData)
         saved == [preSave(post, IsModifiedTitleOfNew(postData))
                     EXCEPT !.createdAt = nextId]
     IN IF ~IsValidPost(post)
          THEN /\ Finish(s, ErrorResp(500))
               /\ log' = [log EXCEPT !.rival = RivalsOf(s, 500, 0)]
               /\ UNCHANGED <<posts, nextId>>
        ELSE IF E11000(saved)
          THEN /\ Finish(s, ErrorResp(400))
               /\ log' = [log EXCEPT !.rival = RivalsOf(s, 400, 0)]
               /\ UNCHANGED <<posts, nextId>>
        ELSE /\ posts' = [id \in DOMAIN posts \cup {nextId} |->
                            IF id = nextId THEN saved ELSE posts[id]]
             /\ nextId' = nextId + 1
             /\ log' = [log EXCEPT !.created[nextId] = Some(r),
                                   !.rival = RivalsOf(s, 201, nextId)]
             /\ Finish(s, DataResp(201, <<CreatedPostResponse(nextId, saved)>>))
  /\ UNCHANGED <<started, inputs>>

(***************************************************************************)
(* PUT /api/posts/:id and DELETE /api/posts/:id                            *)
(***************************************************************************)
\* the check without the admin clause
NotAuthorized_AuthorOnly(post, user) == post.author # user.id

\* post.author.toString() !== req.user.id && req.user.role !== 'admin'
NotAuthorized(post, user) == post.author # user.id /\ user.role # "admin"

\* first await of update and of delete: findById, the 404 and the 403
FindForMutation(s, nextPc) ==
  LET r == reqs[s].req
  IN IF ~IsValidObjectId(ParamId(r)) THEN Finish(s, ErrorResp(500))
     ELSE LET hits == FindById(ParamId(r))
          IN IF hits = {} THEN Finish(s, ErrorResp(404))
             ELSE LET id == CHOOSE i \in hits : TRUE
                  IN IF NotAuthorized(posts[id], r.user)
                       THEN Finish(s, ErrorResp(403))
                       ELSE reqs' = [reqs EXCEPT
                              ![s].pc = nextPc,
                              ![s].loaded = Some([id |-> id, doc |-> posts[id]])]

UpdateFind(s) ==
  /\ reqs[s].pc = "update_find"
  /\ FindForMutation(s, "update_write")
  /\ UNCHANGED <<posts, nextId, started, log, inputs>>

DeleteFind(s) ==
  /\ reqs[s].pc = "delete_find"
  /\ FindForMutation(s, "delete_write")
  /\ UNCHANGED <<posts, nextId, started, log, inputs>>

\* does the request set updateData.featuredImage
SetsImage(r) == r.file # None \/ r.body.removeFeaturedImage = Some("true")

\* the update validators (runValidators: true) on the paths updateData sets
IsValidUpdate(body) ==
  /\ body.title # None =>
       trim(body.title[1]) # <<>> /\ Len(trim(body.title[1])) <= MaxTitleLen
  /\ body.content # None => body.content # Some(<<>>)
  /\ body.excerpt # None => Len(body.excerpt[1]) <= MaxExcerptLen

\* an update that also records the editing principal as the author
ApplyUpdate_TakesAuthorship(doc, r) ==
  [doc EXCEPT
     !.title = IF r.body.title # None THEN trim(r.body.title[1]) ELSE @,
     !.tags = ParseTags(r.body.tags),
     !.isPublished = ParsePublished(r.body.isPublished),
     !.author = r.user.id]

\* an update that replaces the document and so restores the defaults of
\* the paths updateData does not hold
ApplyUpdate_ReplacesDocument(doc, r) ==
  [doc EXCEPT
     !.title = IF r.body.title # None THEN trim(r.body.title[1]) ELSE @,
     !.tags = ParseTags(r.body.tags),
     !.isPublished = ParsePublished(r.body.isPublished),
     !.viewCount = 0]

\* the document after findByIdAndUpdate(id, updateData): updateData holds
\* title, content, excerpt, category (dropped from the update when
\* undefined), tags and isPublished (always set), and featuredImage when a
\* file was uploaded or removal was asked for
ApplyUpdate(doc, r) ==
  [doc EXCEPT
     !.title = IF r.body.title # None THEN trim(r.body.title[1]) ELSE @,
     !.content = IF r.body.content # None THEN r.body.content ELSE @,
     !.excerpt = IF r.body.excerpt # None THEN r.body.excerpt ELSE @,
     !.category = IF r.body.category # None THEN r.body.category ELSE @,
     !.tags = ParseTags(r.body.tags),
     !.isPublished = ParsePublished(r.body.isPublished),
     !.featuredImage =
        IF r.file # None THEN ImageOf(r.file[1])
        ELSE IF r.body.removeFeaturedImage = Some("true") THEN NullImage
        ELSE @]

\* second await of update: findByIdAndUpdate and the response
UpdateWrite(s) ==
  /\ reqs[s].pc = "update_write"
  /\ LET r == reqs[s].req
         id == reqs[s].loaded[1].id
     IN IF ~IsValidUpdate(r.body)
          THEN /\ Finish(s, ErrorResp(500))
               /\ UNCHANGED <<posts, log>>
        ELSE IF id \notin DOMAIN posts
          \* findByIdAndUpdate yields null and post.toObject() throws
          THEN /\ Finish(s, ErrorResp(500))
               /\ UNCHANGED <<posts, log>>
        ELSE LET updated == ApplyUpdate(posts[id], r)
             IN /\ posts' = [posts EXCEPT ![id] = updated]
                /\ log' = [log EXCEPT !.imageWrites[id] =
                             IF SetsImage(r) THEN @ + 1 ELSE @]
                /\ Finish(s, DataResp(200, <<PostWithImageFlag(id, updated)>>))
  /\ UNCHANGED <<nextId, started, inputs>>

\* a delete that only withdraws the post from publication
FindByIdAndDelete_Unpublish(coll, id) ==
  IF id \in DOMAIN coll THEN [coll EXCEPT ![id].isPublished = FALSE] ELSE coll

\* Post.findByIdAndDelete(id): the collection without the document
FindByIdAndDelete(coll, id) == [i \in DOMAIN coll \ {id} |-> coll[i]]

\* second await of delete: findByIdAndDelete and the response
DeleteWrite(s) ==
  /\ reqs[s].pc = "delete_write"
  /\ LET id == reqs[s].loaded[1].id
     IN /\ posts' = FindByIdAndDelete(posts, id)
        /\ log' = [log EXCEPT !.deleted[id] =
                     IF @ = None /\ id \in DOMAIN posts
                       THEN Some(posts[id].slug) ELSE @]
  /\ Finish(s, [NoResp EXCEPT !.status = 200, !.shape = "message"])
  /\ UNCHANGED <<nextId, started, inputs>>

(***************************************************************************)
(* POST /api/posts/:id/comments                                            *)
(***************************************************************************)
\* the route without the validation chain
CommentValidationErrors_None(r) == {}

\* body('content').notEmpty()
CommentValidationErrors(r) ==
  IF r.body.content = None \/ r.body.content = Some(<<>>)
    THEN {"Comment content is required"}
    ELSE {}

\* validationResult, findById and the 404
CommentFind(s) ==
  /\ reqs[s].pc = "comment_find"
  /\ LET r == reqs[s].req
     IN IF CommentValidationErrors(r) # {} THEN Finish(s, ErrorsResp(400))
        ELSE IF ~IsValidObjectId(ParamId(r)) THEN Finish(s, ErrorResp(500))
        ELSE LET hits == FindById(ParamId(r))
             IN IF hits = {} THEN Finish(s, ErrorResp(404))
                ELSE LET id == CHOOSE i \in hits : TRUE
                     IN reqs' = [reqs EXCEPT
                          ![s].pc = "comment_save",
                          ![s].loaded = Some([id |-> id, doc |-> posts[id]])]
  /\ UNCHANGED <<posts, nextId, started, log, inputs>>

\* the validators of the comment subdocument: content is required
IsValidComment(content) == content # None /\ content # Some(<<>>)

\* a save that writes the whole loaded document back
SaveWithPush_WholeDocument(coll, l, comment) ==
  [coll EXCEPT ![l.id] = [l.doc EXCEPT !.comments = Append(@, comment)]]

\* the collection after save() of the loaded document l with the new
\* comment pushed: the update sends the push, and the slug if the
\* pre('save') hook changed it
SaveWithPush(coll, l, comment) ==
  [coll EXCEPT
     ![l.id].comments = Append(@, comment),
     ![l.id].slug = IF preSave(l.doc, FALSE).slug # l.doc.slug
                      THEN preSave(l.doc, FALSE).slug ELSE @]

\* post.addComment(userId, content): this.comments.push(...); this.save().
\* save() validates the new subdocument and sends the push of the new
\* comment; it fails when the document is gone.  The populate that follows
\* reads the users only.
CommentSave(s) ==
  /\ reqs[s].pc = "comment_save"
  /\ LET r == reqs[s].req
         l == reqs[s].loaded[1]
         comment == [user |-> r.user.id, content |-> r.body.content[1]]
     IN IF ~IsValidComment(r.body.content) \/ l.id \notin DOMAIN posts
          THEN /\ Finish(s, ErrorResp(500))
               /\ UNCHANGED posts
          ELSE /\ posts' = SaveWithPush(posts, l, comment)
               /\ Finish(s, [NoResp EXCEPT
                               !.status = 201, !.shape = "data",
                               !.comments = Append(l.doc.comments, comment)])
  /\ UNCHANGED <<nextId, started, log, inputs>>

(***************************************************************************)
(* The clients: principals, uploads and the requests they send.            *)
(***************************************************************************)
User1 == [id |-> "u1", role |-> "user"]
User2 == [id |-> "u2", role |-> "user"]
Admin == [id |-> "a1", role |-> "admin"]

Title_Hi == <<"H","i">>
Title_hi_bang == <<"h","i","!">>
Title_hi_1 == <<"h","i"," ","1">>
Slug_hi == <<"h","i">>

PngFile ==
  [originalname |-> "a.png", extname |-> ".png", mimetype |-> "image/png",
   buffer |-> "B1"]

CreateReq(user, title, published, tags, file) ==
  [NoReq EXCEPT
     !.method = "POST", !.user = user, !.file = file,
     !.body = [EmptyBody EXCEPT
                 !.title = Some(title), !.content = Some(<<"c">>),
                 !.category = Some("cat1"), !.tags = tags,
                 !.isPublished = published]]

UpdateReq(user, id, body, file) ==
  [NoReq EXCEPT !.method = "PUT", !.path = <<id>>, !.user = user,
                !.body = body, !.file = file]

DeleteReq(user, id) ==
  [NoReq EXCEPT !.method = "DELETE", !.path = <<id>>, !.user = user]

CommentReq(user, id, content) ==
  [NoReq EXCEPT !.method = "POST", !.path = <<id, Str_comments>>,
                !.user = user, !.body = [EmptyBody EXCEPT !.content = content]]

DetailReq(identifier) == [NoReq EXCEPT !.method = "GET", !.path = <<identifier>>]

\* the same request sent by a logged-in client (the interceptor of api.js
\* adds the token to every request)
DetailReqAs(user, identifier) == [DetailReq(identifier) EXCEPT !.user = user]

ImageReq(id) == [NoReq EXCEPT !.method = "GET", !.path = <<id, Str_image>>]

ListReq(user, query) ==
  [NoReq EXCEPT !.method = "GET", !.user = user, !.query = query]

SearchReq(q) ==
  [NoReq EXCEPT !.method = "GET", !.path = <<Str_search>>,
                !.query = [EmptyQuery EXCEPT !.q = Some(q)]]

RemoveImageOnly == [EmptyBody EXCEPT !.removeFeaturedImage = Some("true")]

Requests ==
  { CreateReq(User1, Title_Hi, Some("'true'"), Some(<<"x",","," ","y">>), None),
    CreateReq(User2, Title_hi_bang, None, None, Some(PngFile)),
    CreateReq(User1, Title_hi_1, Some("'true'"), None, Some(PngFile)),
    UpdateReq(User1, IdStr(1), RemoveImageOnly, None),
    UpdateReq(User2, IdStr(1), RemoveImageOnly, None),
    UpdateReq(Admin, IdStr(1),
              [EmptyBody EXCEPT !.title = Some(Title_hi_1),
                                !.isPublished = Some("'true'")], None),
    DeleteReq(User2, IdStr(1)),
    DeleteReq(Admin, IdStr(1)),
    CommentReq(User2, IdStr(1), Some(<<"k">>)),
    DetailReq(IdStr(1)),
    DetailReqAs(User1, Slug_hi),
    ImageReq(IdStr(1)),
    ListReq(User1, EmptyQuery),
    ListReq(User2, [EmptyQuery EXCEPT !.page = Some(<<"2">>),
                                      !.limit = Some(<<"1">>),
                                      !.category = Some("cat1")]),
    SearchReq(<<"z">>) }

\* the ids of the categories the Category collection holds (the seed
\* script fills it); "cat9" is a well-formed ObjectId of no category
Categories == {"cat1", "cat2"}

\* clients that send incomplete or forged bodies: creates without title or
\* content, with a category that does not exist, with author and viewCount
\* in the body, comments without content
InvalidRequests ==
  { CreateReq(User1, Title_Hi, Some("'true'"), None, None),
    [CreateReq(User1, Title_Hi, None, None, None) EXCEPT !.body.title = None],
    [CreateReq(User1, <<>>, None, None, None) EXCEPT !.body.isPublished = None],
    [CreateReq(User2, Title_Hi, None, None, None) EXCEPT !.body.content = None],
    [CreateReq(User2, Title_Hi, None, None, None)
       EXCEPT !.body.content = Some(<<>>)],
    [CreateReq(User2, Title_hi_bang, Some("'true'"), None, None)
       EXCEPT !.body.category = Some("cat9")],
    [CreateReq(User1, Title_hi_1, None, None, None)
       EXCEPT !.body.author = Some("u2"), !.body.viewCount = Some(7)],
    CommentReq(User2, IdStr(1), Some(<<"k">>)),
    CommentReq(User2, IdStr(1), Some(<<>>)),
    CommentReq(User1, IdStr(1), None),
    CommentReq(User1, IdStr(2), Some(<<"k">>)),
    UpdateReq(Admin, IdStr(1), [EmptyBody EXCEPT !.title = Some(Title_hi_1)],
              None),
    DeleteReq(Admin, IdStr(1)),
    DetailReq(IdStr(1)),
    ImageReq(IdStr(1)),
    ListReq(User1, EmptyQuery) }

Title_y == <<"y">>

\* clients that page through the list: three published posts in two
\* categories, and list requests with every kind of page and limit
ListRequests ==
  { CreateReq(User1, Title_Hi, Some("'true'"), None, None),
    CreateReq(User2, Title_hi_1, Some("'true'"), None, None),
    [CreateReq(User2, Title_y, Some("'true'"), None, None)
       EXCEPT !.body.category = Some("cat2")],
    ListReq(User1, EmptyQuery),
    ListReq(User1, [EmptyQuery EXCEPT !.page = Some(<<"2">>),
                                      !.limit = Some(<<"1">>),
                                      !.category = Some("cat1")]),
    ListReq(User2, [EmptyQuery EXCEPT !.page = Some(<<"1">>),
                                      !.limit = Some(<<"1">>),
                                      !.category = Some("cat1")]),
    ListReq(User2, [EmptyQuery EXCEPT !.page = Some(<<"0">>),
                                      !.limit = Some(<<"0">>)]),
    ListReq(User2, [EmptyQuery EXCEPT !.page = Some(<<"a">>),
                                      !.limit = Some(<<"1","x">>)]),
    ListReq(User1, [EmptyQuery EXCEPT !.page = Some(<<"-","1">>)]),
    ListReq(User1, [EmptyQuery EXCEPT !.limit = Some(<<"-","5">>)]),
    ListReq(NoUser, EmptyQuery),
    UpdateReq(Admin, IdStr(1), [EmptyBody EXCEPT !.isPublished = None], None),
    DeleteReq(Admin, IdStr(1)),
    CommentReq(User2, IdStr(1), Some(<<"k">>)),
    DetailReq(IdStr(1)),
    ImageReq(IdStr(1)) }

\* a GIF image uploaded under the name a.png, and a text file
GifAsPngFile ==
  [originalname |-> "a.png", extname |-> ".png", mimetype |-> "image/gif",
   buffer |-> "B2"]
TextFile ==
  [originalname |-> "a.txt", extname |-> ".txt", mimetype |-> "text/plain",
   buffer |-> "B3"]

\* a title of 24 letters a: its slug is the title itself
Title_hex == [i \in 1..24 |-> "a"]

\* clients that upload files whose name and type disagree and that give a
\* post a title of 24 hexadecimal characters
EdgeRequests ==
  { CreateReq(User1, Title_Hi, Some("'true'"), None, Some(GifAsPngFile)),
    CreateReq(User1, Title_hi_1, Some("'true'"), None, Some(TextFile)),
    CreateReq(User2, Title_hex, Some("'true'"), None, None),
    DetailReq(Title_hex),
    DetailReq(Slug_hi),
    ImageReq(IdStr(1)),
    ListReq(User1, EmptyQuery),
    UpdateReq(User1, IdStr(1), [EmptyBody EXCEPT !.isPublished = Some("'true'")],
              Some(GifAsPngFile)),
    DeleteReq(Admin, IdStr(1)),
    CommentReq(User2, IdStr(1), Some(<<"k">>)) }

(***************************************************************************)
(* The state machine.                                                      *)
(***************************************************************************)
Ids == 1..MaxRequests

\* the server after start-up, the clients sending the requests of rs
InitWith(rs) ==
  /\ posts = <<>>
  /\ nextId = 1
  /\ reqs = [s \in Slots |-> IdleSlot]
  /\ started = 0
  /\ log = [reads |-> [i \in Ids |-> 0],
            created |-> [i \in Ids |-> None],
            imageWrites |-> [i \in Ids |-> 0],
            rival |-> [s \in Slots |-> None],
            listed |-> [s \in Slots |-> None],
            deleted |-> [i \in Ids |-> None]]
  /\ inputs = rs

Init == InitWith(Requests)

Next ==
  \E s \in Slots :
    \/ Receive(s)
    \/ ListFind(s)
    \/ ListCount(s)
    \/ GetFind(s)
    \/ GetInc(s)
    \/ Serve(s)
    \/ CreateProbe(s)
    \/ CreateSave(s)
    \/ UpdateFind(s)
    \/ UpdateWrite(s)
    \/ DeleteFind(s)
    \/ DeleteWrite(s)
    \/ CommentFind(s)
    \/ CommentSave(s)

Spec == Init /\ [][Next]_vars

\* the same server, serving the clients of InvalidRequests
InitInvalid == InitWith(InvalidRequests)
SpecInvalid == InitInvalid /\ [][Next]_vars

\* the same server, serving the clients of ListRequests
InitList == InitWith(ListRequests)
SpecList == InitList /\ [][Next]_vars

\* the same server, serving the clients of EdgeRequests
InitEdge == InitWith(EdgeRequests)
SpecEdge == InitEdge /\ [][Next]_vars

(***************************************************************************)
(* Properties.                                                             *)
(***************************************************************************)
\* the first step of the handler that serves the request in slot s
HandlerOf(s) ==
  IF reqs[s].route = 0 THEN "none" ELSE Routes[reqs[s].route].handler

\* the step that answers the request in slot s
Answers(s) == reqs[s].pc \notin {"idle", "done"} /\ reqs'[s].pc = "done"

\* C1: when a valid create saves while a post with the base slug s of its
\* title is stored and s-1 is free and is the candidate the probe returned,
\* the create succeeds and the new post is stored with slug s-1, next to the
\* first post with slug s
C1_SequentialCreatesDistinctSlugs ==
  [][\A s \in Slots :
       LET r == reqs[s].req
           base == generateSlug(r.body.title[1])
       IN ( /\ reqs[s].pc = "create_save"
            /\ reqs'[s].pc = "done"
            /\ IsValidPost(NewPost(PostData(r, reqs[s].slug)))
            /\ \E id \in DOMAIN posts : posts[id].slug = base
            /\ reqs[s].slug = base \o <<"-", "1">>
            /\ \A id \in DOMAIN posts : posts[id].slug # reqs[s].slug )
          => /\ reqs'[s].resp.status = 201
             /\ nextId \in DOMAIN posts'
             /\ posts'[nextId].slug = base \o <<"-", "1">>
             /\ \E id \in DOMAIN posts' : posts'[id].slug = base
    ]_vars

\* C2: no two stored posts have the same slug
C2_SlugUnique ==
  \A i \in DOMAIN posts : \A j \in DOMAIN posts :
    i # j => posts[i].slug # posts[j].slug

\* two posts are stored and a create has just been refused as a duplicate
C2_Witness ==
  /\ Cardinality(DOMAIN posts) = 2
  /\ \E s \in Slots : /\ reqs[s].pc = "done"
                      /\ HandlerOf(s) = "create_probe"
                      /\ reqs[s].resp.status = 400

\* C3: when a create saves after a rival create, which had passed the
\* probe of generateUniqueSlug with the same candidate before either saved,
\* has been answered, neither request is invalid and the post of a rival
\* that won is still stored, then exactly one of the two is stored: the
\* loser is answered 400 and persists nothing
C3_ConcurrentCreatesOneSurvives ==
  [][\A s \in Slots :
       ( /\ reqs[s].pc = "create_save"
         /\ reqs'[s].pc = "done"
         /\ log.rival[s] # None
         /\ reqs'[s].resp.status # 500 )
       => LET rival == log.rival[s][1]
          IN ( /\ rival.status # 500
               /\ rival.status = 201 => rival.id \in DOMAIN posts )
             => \/ /\ rival.status = 201
                   /\ reqs'[s].resp.status = 400
                   /\ posts' = posts
                \/ /\ rival.status = 400
                   /\ reqs'[s].resp.status = 201
                   /\ DOMAIN posts' = DOMAIN posts \cup {nextId}
    ]_vars

\* C4: the stored viewCount of every post equals the number of detail reads
\* of that post that have completed, whatever their interleaving
C4_NoLostViewIncrements ==
  \A id \in DOMAIN posts : posts[id].viewCount = log.reads[id]

\* two detail reads of one post overlapped (the one just answered read
\* viewCount 0) and the post counts both
C4_Witness ==
  \E s \in Slots :
    /\ reqs[s].pc = "done"
    /\ HandlerOf(s) = "get_find"
    /\ reqs[s].resp.status = 200
    /\ reqs[s].resp.data[1].post.viewCount = 0
    /\ reqs[s].resp.data[1].id \in DOMAIN posts
    /\ posts[reqs[s].resp.data[1].id].viewCount = 2

\* C5: an update or delete request is answered 403 exactly by the step that
\* found the post and saw a principal who is neither its author nor an
\* admin, and the step that answers 403 leaves the collection unchanged
C5_ForbiddenIffNotAuthorOrAdmin ==
  [][\A s \in Slots :
       ( /\ Answers(s)
         /\ HandlerOf(s) \in {"update_find", "delete_find"} )
       => LET r == reqs[s].req
              hits == FindById(ParamId(r))
              refused ==
                /\ reqs[s].pc \in {"update_find", "delete_find"}
                /\ hits # {}
                /\ \A id \in hits : /\ posts[id].author # r.user.id
                                    /\ r.user.role # "admin"
          IN /\ (reqs'[s].resp.status = 403) <=> refused
             /\ (reqs'[s].resp.status = 403) => posts' = posts
    ]_vars

\* an update or delete of a stored post has been answered 403
C5_Witness ==
  \E s \in Slots :
    /\ reqs[s].pc = "done"
    /\ HandlerOf(s) \in {"update_find", "delete_find"}
    /\ reqs[s].resp.status = 403
    /\ FindById(ParamId(reqs[s].req)) # {}

\* C6: no post in the data of a list response, or in the result a list
\* request holds before it answers, has isPublished false
C6_ListOnlyPublished ==
  \A s \in Slots :
    HandlerOf(s) = "list_find" =>
      /\ \A i \in 1..Len(reqs[s].found) : reqs[s].found[i].post.isPublished
      /\ \A i \in 1..Len(reqs[s].resp.data) :
           reqs[s].resp.data[i].post.isPublished

\* a list was answered with a post while a draft is stored
C6_Witness ==
  /\ \E id \in DOMAIN posts : ~posts[id].isPublished
  /\ \E s \in Slots :
       /\ reqs[s].pc = "done"
       /\ HandlerOf(s) = "list_find"
       /\ reqs[s].resp.status = 200
       /\ Len(reqs[s].resp.data) >= 1

\* C7: a search request with a non-empty query that matches the title,
\* content or tags of no published post is answered 200 with an empty data
\* list
C7_SearchWithoutMatchIsEmptySuccess ==
  [][\A s \in Slots :
       LET r == reqs[s].req
       IN ( /\ Answers(s)
            /\ r.method = "GET"
            /\ r.path = <<Str_search>>
            /\ r.query.q # None
            /\ r.query.q # Some(<<>>)
            /\ \A id \in DOMAIN posts :
                 posts[id].isPublished =>
                   /\ ~RegexMatchesI(posts[id].title, r.query.q[1])
                   /\ ~RegexMatchesI(posts[id].content[1], r.query.q[1])
                   /\ \A k \in 1..Len(posts[id].tags) :
                        ~RegexMatchesI(posts[id].tags[k], r.query.q[1]) )
          => /\ reqs'[s].resp.status = 200
             /\ reqs'[s].resp.shape = "data"
             /\ reqs'[s].resp.data = <<>>
    ]_vars

\* the views a create, list or detail request holds or has sent
JsonViews(s) ==
  IF HandlerOf(s) \in {"create_probe", "list_find", "get_find"}
    THEN Range(reqs[s].found) \cup Range(reqs[s].resp.data)
    ELSE {}

\* C8: the image request for a stored post that was created with an
\* image/png upload, and whose image no update has set since, is answered
\* 200 with exactly the uploaded bytes and Content-Type image/png; and no
\* create, list or detail response carries image bytes
C8_ImageRoundTrip ==
  /\ [][\A s \in Slots : \A id \in DOMAIN posts :
          ( /\ reqs[s].pc = "image"
            /\ reqs'[s].pc = "done"
            /\ ParamId(reqs[s].req) = IdStr(id)
            /\ log.created[id] # None
            /\ log.created[id][1].file # None
            /\ log.created[id][1].file[1].mimetype = "image/png"
            /\ log.imageWrites[id] = 0 )
          => /\ reqs'[s].resp.status = 200
             /\ reqs'[s].resp.bytes = log.created[id][1].file[1].buffer
             /\ reqs'[s].resp.contentType = "image/png"
      ]_vars
  /\ [](\A s \in Slots : \A v \in JsonViews(s) :
          v.post.featuredImage.data = NoBytes)

\* the image of a post created with a png upload has been fetched, and a
\* detail or list response for that post is held by the other slot
C8_Witness ==
  \E s \in Slots : \E t \in Slots : \E id \in DOMAIN posts :
    /\ reqs[s].pc = "done"
    /\ HandlerOf(s) = "image"
    /\ reqs[s].resp.status = 200
    /\ reqs[s].resp.bytes = PngFile.buffer
    /\ reqs[s].resp.contentType = "image/png"
    /\ ParamId(reqs[s].req) = IdStr(id)
    /\ posts[id].featuredImage.data = PngFile.buffer
    /\ HandlerOf(t) \in {"list_find", "get_find"}
    /\ \E v \in JsonViews(t) : v.id = id

\* C9: in every list and detail response the hasFeaturedImage flag of a
\* post is true exactly when the post has a stored image
C9_FlagIffImageStored ==
  \A s \in Slots :
    HandlerOf(s) \in {"list_find", "get_find"} =>
      \A v \in Range(reqs[s].resp.data) :
        v.hasFeaturedImage <=> (v.post.featuredImage.kind = "set")

\* C10: a successful update that carries only removeFeaturedImage = 'true'
\* clears the image of the post and changes no other field
C10_RemoveImageOnlyClearsImage ==
  [][\A s \in Slots :
       LET r == reqs[s].req
       IN ( /\ reqs[s].pc = "update_write"
            /\ reqs'[s].pc = "done"
            /\ reqs'[s].resp.status = 200
            /\ r.file = None
            /\ r.body = [EmptyBody EXCEPT !.removeFeaturedImage = Some("true")] )
          => LET id == reqs[s].loaded[1].id
             IN /\ posts'[id].featuredImage.data = NoBytes
                /\ posts'[id].featuredImage.kind # "set"
                /\ posts'[id] =
                     [posts[id] EXCEPT !.featuredImage = posts'[id].featuredImage]
    ]_vars

\* a create request that lacks a required field: title or content is
\* undefined or the empty string
LacksRequiredField(r) ==
  \/ r.body.title = None \/ r.body.title = Some(<<>>)
  \/ r.body.content = None \/ r.body.content = Some(<<>>)

\* C11: the step that answers a create request whose title or content is
\* missing or empty answers with status 400 and stores no post
C11_CreateWithoutRequiredFieldIs400 ==
  [][\A s \in Slots :
       ( /\ HandlerOf(s) = "create_probe"
         /\ Answers(s)
         /\ LacksRequiredField(reqs[s].req) )
       => /\ reqs'[s].resp.status = 400
          /\ posts' = posts]_vars

\* Category.findById(category) finds no category
CategoryUnresolved(r) ==
  r.body.category # None /\ r.body.category[1] \notin Categories

\* C12: the step that answers a create request whose category is the id of
\* no stored category answers with status 404 and stores no post
C12_CreateWithUnknownCategoryIs404 ==
  [][\A s \in Slots :
       ( /\ HandlerOf(s) = "create_probe"
         /\ Answers(s)
         /\ ~LacksRequiredField(reqs[s].req)
         /\ CategoryUnresolved(reqs[s].req) )
       => /\ reqs'[s].resp.status = 404
          /\ posts' = posts]_vars

\* C13: the step that answers a create with 201 stores the new post with
\* the id of the requesting principal as author, viewCount 0 and no
\* comments, whatever the body holds
C13_CreatedPostDefaults ==
  [][\A s \in Slots :
       ( /\ HandlerOf(s) = "create_probe"
         /\ Answers(s)
         /\ reqs'[s].resp.status = 201 )
       => /\ nextId \in DOMAIN posts' /\ nextId \notin DOMAIN posts
          /\ posts'[nextId].author = reqs[s].req.user.id
          /\ posts'[nextId].viewCount = 0
          /\ posts'[nextId].comments = <<>>]_vars

\* a post is stored whose create request carried author and viewCount in
\* its body
C13_Witness ==
  \E id \in DOMAIN posts :
    /\ log.created[id] # None
    /\ log.created[id][1].body.author # None
    /\ log.created[id][1].body.author # Some(log.created[id][1].user.id)
    /\ log.created[id][1].body.viewCount = Some(7)

\* C14: no step changes the author of a post that is stored before and
\* after it
C14_AuthorNeverChanges ==
  [][\A id \in DOMAIN posts \cap DOMAIN posts' :
       posts'[id].author = posts[id].author]_vars

\* an admin who is not the author has updated a post, and the post still
\* has the principal of its create request as author
C14_Witness ==
  \E s \in Slots : \E id \in DOMAIN posts :
    /\ HandlerOf(s) = "update_find"
    /\ reqs[s].pc = "done"
    /\ reqs[s].resp.status = 200
    /\ reqs[s].req.path = <<IdStr(id)>>
    /\ reqs[s].req.user.id # posts[id].author
    /\ log.created[id] # None
    /\ posts[id].author = log.created[id][1].user.id

\* C15: the viewCount of every stored post is a natural number, and no step
\* lowers the viewCount of a post that is stored before and after it
C15_ViewCountMonotonic ==
  /\ [](\A id \in DOMAIN posts : posts[id].viewCount \in Nat)
  /\ [][\A id \in DOMAIN posts \cap DOMAIN posts' :
          posts'[id].viewCount >= posts[id].viewCount]_vars

\* a post that has been read is updated afterwards: the update was answered
\* 200 and the post still counts its reads
C15_Witness ==
  \E s \in Slots : \E id \in DOMAIN posts :
    /\ HandlerOf(s) = "update_find"
    /\ reqs[s].pc = "done"
    /\ reqs[s].resp.status = 200
    /\ reqs[s].req.path = <<IdStr(id)>>
    /\ log.reads[id] >= 1
    /\ posts[id].viewCount >= 1

\* C16: the lookup of a detail read changes no post; when it finds a post,
\* the step that answers the read adds exactly 1 to the stored viewCount of
\* that post and leaves its other fields and every other post as they are
\* (nothing changes when the post was deleted after the lookup); a detail
\* read answered 404 changes nothing in the collection
C16_DetailReadCountsOnce ==
  [][\A s \in Slots :
       /\ (reqs[s].pc = "get_find" /\ reqs'[s].pc # "get_find")
            => /\ posts' = posts
               /\ reqs'[s].pc = "done" => reqs'[s].resp.status = 404
       /\ (reqs[s].pc = "get_inc" /\ reqs'[s].pc = "done")
            => LET id == reqs[s].loaded[1].id
               IN /\ reqs'[s].resp.status = 200
                  /\ IF id \in DOMAIN posts
                       THEN posts' = [posts EXCEPT
                                        ![id].viewCount = posts[id].viewCount + 1]
                       ELSE posts' = posts]_vars

\* a logged-in client has read a post by its slug while another post is
\* stored: the read was answered 200 and the post counts one view
C16_Witness ==
  \E s \in Slots : \E id \in DOMAIN posts :
    /\ HandlerOf(s) = "get_find"
    /\ reqs[s].pc = "done"
    /\ reqs[s].resp.status = 200
    /\ reqs[s].req.user # NoUser
    /\ reqs[s].req.path = <<posts[id].slug>>
    /\ posts[id].viewCount = 1
    /\ log.reads[id] = 1
    /\ \E other \in DOMAIN posts : other # id /\ posts[other].viewCount = 0

\* the page the list operation is to use for the parameter v: dflt when v
\* is absent, is no number or is a number not above 0
EffectiveOrDefault(v, dflt) ==
  LET n == parseInt(v)
  IN IF n = None \/ n[1] <= 0 THEN dflt ELSE n[1]

\* C17: every list request that is answered with a page reports page 1 when
\* its page parameter is absent, unparsable or not positive, and limit 10
\* when its limit parameter is absent, unparsable or not positive (and
\* the parsed number otherwise)
C17_PageAndLimitDefaults ==
  \A s \in Slots :
    ( /\ HandlerOf(s) = "list_find"
      /\ reqs[s].pc = "done"
      /\ reqs[s].resp.status = 200 )
    => /\ reqs[s].resp.pagination.page =
            EffectiveOrDefault(reqs[s].req.query.page, 1)
       /\ reqs[s].resp.pagination.limit =
            EffectiveOrDefault(reqs[s].req.query.limit, 10)

\* the published posts that match the category filter of the query q
PublishedInCategory(q) ==
  {id \in DOMAIN posts :
     /\ posts[id].isPublished
     /\ q.category # None => posts[id].category = q.category}

\* the position of post id among the posts of ids, newest first
PositionIn(ids, id) ==
  1 + Cardinality({j \in ids : posts[j].createdAt > posts[id].createdAt})

\* C18: when the collection is, at the count of a list request, as its find
\* saw it, and the page p and the limit L in effect are at least 1, the
\* response holds one after the other the posts at positions (p-1)*L+1 ..
\* p*L of the published posts matching the category filter, newest first,
\* and its pagination has their number as total and ceil(total / L) as pages
C18_ListPageOfQuiescentStore ==
  [][\A s \in Slots :
       LET q == reqs[s].req.query
           p == parseIntOr(parseInt(q.page), 1)
           L == parseIntOr(parseInt(q.limit), 10)
           all == PublishedInCategory(q)
           onPage == {id \in all : /\ (p - 1) * L + 1 <= PositionIn(all, id)
                                    /\ PositionIn(all, id) <= p * L}
           resp == reqs'[s].resp
       IN ( /\ reqs[s].pc = "list_count"
            /\ reqs'[s].pc = "done"
            /\ log.listed[s] = Some(posts)
            /\ p >= 1 /\ L >= 1 )
          => /\ resp.status = 200
             /\ Len(resp.data) = Cardinality(onPage)
             /\ \A i \in 1..Len(resp.data) :
                   /\ resp.data[i].id \in onPage
                   /\ PositionIn(all, resp.data[i].id) = (p - 1) * L + i
                   /\ resp.data[i].post.title = posts[resp.data[i].id].title
             /\ resp.pagination.total = Cardinality(all)
             /\ resp.pagination.pages * L >= resp.pagination.total
             /\ (resp.pagination.pages - 1) * L < resp.pagination.total
             /\ resp.pagination.pages >= 0]_vars

\* three requests served one after the other (the second slot was never
\* used): two published posts of one category are stored and page 2 with
\* limit 1 of that category was answered with the older post, total 2 and
\* 2 pages
C18_Witness ==
  \E s \in Slots :
    /\ \A t \in Slots \ {s} : reqs[t].pc = "idle"
    /\ HandlerOf(s) = "list_find"
    /\ reqs[s].pc = "done"
    /\ reqs[s].resp.status = 200
    /\ reqs[s].req.query.category = Some("cat1")
    /\ reqs[s].resp.pagination = [page |-> 2, limit |-> 1, total |-> 2, pages |-> 2]
    /\ Len(reqs[s].resp.data) = 1
    /\ reqs[s].resp.data[1].id = 1
    /\ DOMAIN posts = {1, 2}

\* C19: a comment request with missing or empty content is answered 400;
\* one with content for a well-formed id under which no post is stored is
\* answered 404; the step that answers either changes nothing in the
\* collection
C19_CommentRejections ==
  [][\A s \in Slots :
       LET r == reqs[s].req
       IN ( /\ HandlerOf(s) = "comment_find"
            /\ Answers(s) )
          => /\ (r.body.content = None \/ r.body.content = Some(<<>>))
                  => /\ reqs'[s].resp.status = 400
                     /\ posts' = posts
             /\ ( /\ r.body.content # None /\ r.body.content # Some(<<>>)
                  /\ reqs[s].pc = "comment_find"
                  /\ IsValidObjectId(ParamId(r))
                  /\ \A id \in DOMAIN posts : IdStr(id) # ParamId(r) )
                  => /\ reqs'[s].resp.status = 404
                     /\ posts' = posts]_vars

\* a post is stored; a comment without content on it was answered 400 and
\* a comment on the id of no post was answered 404; the post has no comment
C19_Witness ==
  \E s, t \in Slots : \E id \in DOMAIN posts :
    /\ HandlerOf(s) = "comment_find" /\ HandlerOf(t) = "comment_find"
    /\ reqs[s].pc = "done" /\ reqs[t].pc = "done"
    /\ reqs[s].req.path = <<IdStr(id), Str_comments>>
    /\ reqs[s].req.body.content = Some(<<>>)
    /\ reqs[s].resp.status = 400
    /\ reqs[t].req.body.content # None /\ reqs[t].req.body.content # Some(<<>>)
    /\ \A i \in DOMAIN posts : reqs[t].req.path # <<IdStr(i), Str_comments>>
    /\ reqs[t].resp.status = 404
    /\ posts[id].comments = <<>>

\* C20: the step that answers a comment request with 201 appends exactly
\* one comment, by the requesting principal and with the content sent, to
\* the stored comments of the post, and its response is the stored sequence
\* after the append; no step shortens or changes the comments a post has
\* while the post stays stored
C20_CommentAppendReturnsStoredSequence ==
  [][/\ \A s \in Slots :
          ( /\ HandlerOf(s) = "comment_find"
            /\ Answers(s)
            /\ reqs'[s].resp.status = 201 )
          => LET r == reqs[s].req
                 id == reqs[s].loaded[1].id
             IN /\ id \in DOMAIN posts /\ id \in DOMAIN posts'
                /\ posts'[id].comments =
                     Append(posts[id].comments,
                            [user |-> r.user.id, content |-> r.body.content[1]])
                /\ reqs'[s].resp.comments = posts'[id].comments
     /\ \A id \in DOMAIN posts \cap DOMAIN posts' :
          /\ Len(posts[id].comments) <= Len(posts'[id].comments)
          /\ SubSeq(posts'[id].comments, 1, Len(posts[id].comments))
               = posts[id].comments]_vars

\* C21: once a delete has removed post id, the post is never stored again;
\* every detail read, update, delete and comment (with content) that looks
\* the id up afterwards, and every image fetch for it, is answered 404; a
\* detail read by the slug the post had is answered 404 or, when a post
\* created since holds that slug, finds that other post; the find of a list
\* request does not return the post
C21_DeletedPostIsGone ==
  [][\A id \in Ids : log.deleted[id] # None =>
       /\ id \notin DOMAIN posts'
       /\ \A s \in Slots :
            LET r == reqs[s].req
                NotFoundNow == reqs'[s].pc = "done" /\ reqs'[s].resp.status = 404
            IN /\ ( /\ reqs[s].pc \in {"get_find", "update_find", "delete_find"}
                    /\ reqs'[s].pc # reqs[s].pc
                    /\ r.path = <<IdStr(id)>> ) => NotFoundNow
               /\ ( /\ reqs[s].pc = "comment_find"
                    /\ reqs'[s].pc # reqs[s].pc
                    /\ IsValidComment(r.body.content)
                    /\ r.path = <<IdStr(id), Str_comments>> ) => NotFoundNow
               /\ ( /\ reqs[s].pc = "image"
                    /\ reqs'[s].pc # reqs[s].pc
                    /\ r.path = <<IdStr(id), Str_image>> ) => NotFoundNow
               /\ ( /\ reqs[s].pc = "get_find"
                    /\ reqs'[s].pc # reqs[s].pc
                    /\ r.path = <<log.deleted[id][1]>> )
                    => IF \E j \in DOMAIN posts : posts[j].slug = log.deleted[id][1]
                         THEN /\ reqs'[s].pc = "get_inc"
                              /\ reqs'[s].loaded[1].id # id
                         ELSE NotFoundNow
               /\ ( /\ reqs[s].pc = "list_find"
                    /\ reqs'[s].pc = "list_count" )
                    => \A i \in 1..Len(reqs'[s].found) : reqs'[s].found[i].id # id]_vars

\* three requests served one after the other (the second slot was never
\* used): a post was created and deleted, and the detail read by its id
\* that came last was answered 404
C21_Witness ==
  \E s \in Slots : \E id \in Ids :
    /\ \A t \in Slots \ {s} : reqs[t].pc = "idle"
    /\ log.created[id] # None
    /\ log.deleted[id] # None
    /\ HandlerOf(s) = "get_find"
    /\ reqs[s].req.path = <<IdStr(id)>>
    /\ reqs[s].pc = "done"
    /\ reqs[s].resp.status = 404

\* C22: a step changes the slug of a stored post only if it is the write of
\* an update whose title differs from the stored title; updates of other
\* fields or with the stored title, comment appends and detail reads leave
\* the slug as it is
C22_SlugKeptWithoutTitleChange ==
  [][\A id \in DOMAIN posts \cap DOMAIN posts' :
       posts'[id].slug # posts[id].slug
       => \E s \in Slots :
            /\ reqs[s].pc = "update_write"
            /\ reqs'[s].pc = "done"
            /\ reqs[s].loaded[1].id = id
            /\ reqs[s].req.body.title # None
            /\ trim(reqs[s].req.body.title[1]) # posts[id].title]_vars

\* a post has been updated by a request without title and has been
\* commented on, and its slug is the one derived from the title of its
\* create request
C22_Witness ==
  \E id \in DOMAIN posts :
    /\ log.created[id] # None
    /\ log.imageWrites[id] >= 1
    /\ posts[id].title = trim(log.created[id][1].body.title[1])
    /\ posts[id].comments # <<>>
    /\ posts[id].slug = generateSlug(log.created[id][1].body.title[1])

\* C23: every response of the posts router with a status of 400 or above
\* has the body { success: false, error: <message> }
C23_ErrorBodyShape ==
  \A s \in Slots :
    (reqs[s].pc = "done" /\ reqs[s].resp.status >= 400)
    => reqs[s].resp.shape = "error"

\* does the response in slot s carry data of a post
CarriesPostData(s) ==
  \/ reqs[s].resp.data # <<>>
  \/ reqs[s].resp.comments # <<>>
  \/ reqs[s].resp.bytes # NoBytes

ImageTypeOfExt(extname) ==
  IF extname \in {".jpeg", ".jpg"} THEN "jpeg"
  ELSE IF extname = ".png" THEN "png"
  ELSE IF extname = ".gif" THEN "gif"
  ELSE IF extname = ".webp" THEN "webp"
  ELSE ""

\* the image type a MIME type names, "" when it names none of the allowed
\* types
ImageTypeOfMime(mimetype) ==
  IF mimetype \in {"image/jpeg", "image/jpg"} THEN "jpeg"
  ELSE IF mimetype = "image/png" THEN "png"
  ELSE IF mimetype = "image/gif" THEN "gif"
  ELSE IF mimetype = "image/webp" THEN "webp"
  ELSE ""

\* C25: a request with a file that arrives on a route with the upload
\* middleware and carries a principal gets past the middleware only if the
\* extension and the MIME type of the file name the same allowed image
\* type; otherwise it is answered 400 on arrival
C25_UploadTypesAgree ==
  [][\A s \in Slots :
       LET r == reqs'[s].req
       IN ( /\ started' = started + 1
            /\ reqs'[s] # reqs[s]
            /\ reqs'[s].route # 0
            /\ Routes[reqs'[s].route].upload
            /\ auth(r)
            /\ r.file # None )
          => IF /\ ImageTypeOfExt(r.file[1].extname) # ""
                /\ ImageTypeOfExt(r.file[1].extname)
                     = ImageTypeOfMime(r.file[1].mimetype)
               THEN reqs'[s].pc # "done"
               ELSE reqs'[s].pc = "done" /\ reqs'[s].resp.status = 400]_vars

\* C26: the lookup of a detail read whose identifier is the slug of a
\* stored post finds that post, whatever the slug looks like
C26_DetailBySlugFindsPost ==
  [][\A s \in Slots :
       ( /\ reqs[s].pc = "get_find"
         /\ reqs'[s].pc # "get_find"
         /\ \E id \in DOMAIN posts : posts[id].slug = ParamId(reqs[s].req) )
       => /\ reqs'[s].pc = "get_inc"
          /\ posts[reqs'[s].loaded[1].id].slug = ParamId(reqs[s].req)]_vars

\* C27: the write of an update that is answered 200 leaves every field the
\* request does not mention as it is stored: title, content, excerpt,
\* category, tags and isPublished when the body does not hold them, the
\* featured image when no file is uploaded and no removal is asked for
C27_UpdateKeepsUnmentionedFields ==
  [][\A s \in Slots :
       ( /\ reqs[s].pc = "update_write"
         /\ reqs'[s].pc = "done"
         /\ reqs'[s].resp.status = 200 )
       => LET r == reqs[s].req
              id == reqs[s].loaded[1].id
          IN /\ id \in DOMAIN posts /\ id \in DOMAIN posts'
             /\ r.body.title = None => posts'[id].title = posts[id].title
             /\ r.body.content = None => posts'[id].content = posts[id].content
             /\ r.body.excerpt = None => posts'[id].excerpt = posts[id].excerpt
             /\ r.body.category = None => posts'[id].category = posts[id].category
             /\ r.body.tags = None => posts'[id].tags = posts[id].tags
             /\ r.body.isPublished = None
                  => posts'[id].isPublished = posts[id].isPublished
             /\ ~SetsImage(r)
                  => posts'[id].featuredImage = posts[id].featuredImage]_vars

\* C28: when the post an update or a comment request loaded is gone at the
\* time of its write, the request is answered 404 and the collection stays
\* as it is
C28_WriteAfterDeleteIs404 ==
  [][\A s \in Slots :
       ( /\ reqs[s].pc \in {"update_write", "comment_save"}
         /\ reqs'[s].pc = "done"
         /\ reqs[s].loaded[1].id \notin DOMAIN posts )
       => /\ reqs'[s].resp.status = 404
          /\ posts' = posts]_vars

\* the comment the request r appends
CommentOf(r) == [user |-> r.user.id, content |-> r.body.content[1]]

\* C29: the save of a comment request answered 201 changes the collection
\* in one way only, it puts the new comment after the comments stored at
\* that moment: comments, view counts and updated fields written since the
\* request loaded the post stay; so when two comment requests for a stored
\* post were both answered 201, the post holds both comments
C29_ConcurrentCommentsKept ==
  /\ [][\A s \in Slots :
          ( /\ reqs[s].pc = "comment_save"
            /\ reqs'[s].pc = "done"
            /\ reqs'[s].resp.status = 201 )
          => LET id == reqs[s].loaded[1].id
             IN /\ id \in DOMAIN posts
                /\ posts' = [posts EXCEPT ![id].comments =
                                Append(posts[id].comments, CommentOf(reqs[s].req))]]_vars
  /\ [](\A s, t \in Slots : \A id \in DOMAIN posts :
          ( /\ s # t
            /\ HandlerOf(s) = "comment_find" /\ HandlerOf(t) = "comment_find"
            /\ reqs[s].pc = "done" /\ reqs[t].pc = "done"
            /\ reqs[s].resp.status = 201 /\ reqs[t].resp.status = 201
            /\ reqs[s].req.path = <<IdStr(id), Str_comments>>
            /\ reqs[t].req.path = <<IdStr(id), Str_comments>> )
          => \E i, j \in 1..Len(posts[id].comments) :
               /\ i # j
               /\ posts[id].comments[i] = CommentOf(reqs[s].req)
               /\ posts[id].comments[j] = CommentOf(reqs[t].req))

\* two comment requests for a post were both answered 201 with one comment
\* each (each loaded the post before the other saved), and the post holds
\* two comments
C29_Witness ==
  \E s, t \in Slots : \E id \in DOMAIN posts :
    /\ s # t
    /\ HandlerOf(s) = "comment_find" /\ HandlerOf(t) = "comment_find"
    /\ reqs[s].pc = "done" /\ reqs[t].pc = "done"
    /\ reqs[s].resp.status = 201 /\ reqs[t].resp.status = 201
    /\ reqs[s].req.path = <<IdStr(id), Str_comments>>
    /\ reqs[t].req.path = <<IdStr(id), Str_comments>>
    /\ Len(reqs[s].resp.comments) = 1 /\ Len(reqs[t].resp.comments) = 1
    /\ Len(posts[id].comments) = 2

\* C30: when a detail read is answered 200 for a post that is stored with
\* the viewCount v its lookup saw (no other read counted since), the
\* viewCount in the response is v + 1, the value stored after the read
C30_ResponseCountsOwnView ==
  [][\A s \in Slots :
       ( /\ reqs[s].pc = "get_inc"
         /\ reqs'[s].pc = "done"
         /\ reqs'[s].resp.status = 200
         /\ reqs[s].loaded[1].id \in DOMAIN posts
         /\ posts[reqs[s].loaded[1].id].viewCount
              = reqs[s].loaded[1].doc.viewCount )
       => LET id == reqs[s].loaded[1].id
          IN /\ reqs'[s].resp.data[1].post.viewCount = posts[id].viewCount + 1
             /\ reqs'[s].resp.data[1].post.viewCount = posts'[id].viewCount]_vars

====
